---- MODULE Spec2Model ----
(***************************************************************************)
(* Model of the two Streamlit demos of the repository:                     *)
(*   - the amortization engine of the loan calculator                      *)
(*     (pmt, amortization_schedule and the KPI sums), and                  *)
(*   - the session history of the streaming chat demo                      *)
(*     (on_send, stream_openai_response, get_openai_client, Clear Chat).   *)
(*                                                                         *)
(* Python floats are modelled as floating-point numbers of Prec decimal    *)
(* digits, [m |-> mantissa, e |-> exponent] standing for m * 10^e, every   *)
(* operation rounding its exact result to Prec digits, ties to even, as    *)
(* IEEE-754 arithmetic does with 53 binary digits.  The values that        *)
(* round(x, 2) yields are kept as integer numbers of cents.                *)
(***************************************************************************)
EXTENDS Integers, Sequences, FiniteSets

(***************************************************************************)
(* Floating-point arithmetic                                               *)
(***************************************************************************)
Prec == 4

RECURSIVE Pow10(_)
Pow10(k) == IF k <= 0 THEN 1 ELSE 10 * Pow10(k - 1)

MantLo == Pow10(Prec - 1)
MantHi == Pow10(Prec)

Zero == [m |-> 0, e |-> 0]
One == [m |-> MantLo, e |-> 1 - Prec]

IAbs(i) == IF i < 0 THEN -i ELSE i

\* n / d rounded to an integer, ties to even (n >= 0, d > 0)
RoundHalfEven(n, d) ==
    LET q == n \div d
        rem == n % d
    IN  IF 2 * rem > d \/ (2 * rem = d /\ q % 2 = 1) THEN q + 1 ELSE q

\* the float nearest to sign * (n / d) * 10^e  (n >= 0, d > 0, sign in {-1, 1})
RECURSIVE Normalize(_, _, _, _)
Normalize(sign, n, d, e) ==
    IF n = 0 THEN Zero
    ELSE IF n \div d >= MantHi THEN Normalize(sign, n, d * 10, e + 1)
    ELSE IF n \div d < MantLo THEN Normalize(sign, n * 10, d, e - 1)
    ELSE LET q == RoundHalfEven(n, d)
         IN  IF q = MantHi THEN [m |-> sign * MantLo, e |-> e + 1]
             ELSE [m |-> sign * q, e |-> e]

Sgn(i) == IF i < 0 THEN -1 ELSE 1

FNeg(a) == [m |-> -a.m, e |-> a.e]

FAbs(a) == [m |-> IAbs(a.m), e |-> a.e]

\* a + b
FAdd(a, b) ==
    IF a.m = 0 THEN b
    ELSE IF b.m = 0 THEN a
    ELSE LET hi == IF a.e >= b.e THEN a ELSE b
             lo == IF a.e >= b.e THEN b ELSE a
             diff == hi.e - lo.e
         IN  IF diff > Prec + 1 THEN hi
             ELSE LET s == hi.m * Pow10(diff) + lo.m
                  IN  Normalize(Sgn(s), IAbs(s), 1, lo.e)

\* a - b
FSub(a, b) == FAdd(a, FNeg(b))

\* a * b
FMul(a, b) == Normalize(Sgn(a.m) * Sgn(b.m), IAbs(a.m) * IAbs(b.m), 1, a.e + b.e)

\* a / b  (b # 0; Python raises ZeroDivisionError otherwise)
FDiv(a, b) == Normalize(Sgn(a.m) * Sgn(b.m), IAbs(a.m), IAbs(b.m), a.e - b.e)

\* the sign of a - b, computed exactly: -1, 0 or 1
FCmp(a, b) ==
    IF a.m = 0 /\ b.m = 0 THEN 0
    ELSE IF a.m = 0 THEN -Sgn(b.m)
    ELSE IF b.m = 0 THEN Sgn(a.m)
    ELSE LET hi == IF a.e >= b.e THEN a ELSE b
             lo == IF a.e >= b.e THEN b ELSE a
             diff == hi.e - lo.e
             s == IF diff > Prec + 1 THEN Sgn(hi.m)
                  ELSE hi.m * Pow10(diff) - lo.m
             t == IF s > 0 THEN 1 ELSE IF s < 0 THEN -1 ELSE 0
         IN  IF a.e >= b.e THEN t ELSE -t

FGt(a, b) == FCmp(a, b) > 0

FLt(a, b) == FCmp(a, b) < 0

\* x ** k for an integer k >= 0: the products of repeated squaring, each
\* rounded to Prec digits
RECURSIVE FPow(_, _)
FPow(x, k) ==
    IF k <= 0 THEN One
    ELSE IF k % 2 = 0 THEN LET h == FPow(x, k \div 2) IN FMul(h, h)
    ELSE FMul(FPow(x, k - 1), x)

\* the float nearest to the integer i (|i| < 10^9)
FInt(i) == Normalize(Sgn(i), IAbs(i), 1, 0)

\* the float nearest to i / 100
FCents(i) == Normalize(Sgn(i), IAbs(i), 1, -2)

\* round(x, 2), as a number of cents
Round2(x) ==
    IF x.m = 0 THEN 0
    ELSE IF x.e >= -2 THEN x.m * Pow10(x.e + 2)
    ELSE IF -2 - x.e > Prec THEN 0
    ELSE Sgn(x.m) * RoundHalfEven(IAbs(x.m), Pow10(-2 - x.e))

(***************************************************************************)
(* Loan calculator: pmt and amortization_schedule                          *)
(***************************************************************************)
MaxYears == 2

Freqs == {"Monthly", "Quarterly", "Yearly"}

\* arguments of ordinary loans: amounts in cents, the rate in percent a year
TypicalArgs ==
    [principal : {FCents(0), FCents(500), FCents(10000)},
     apr : {FInt(0), FInt(12)},
     years : 1 .. MaxYears,
     freq : Freqs,
     monthly_fee : {FCents(0), FCents(150)},
     extra_per_period : {FCents(0), FCents(200)}]

\* arguments outside the ranges the sidebar offers: a rate of 99900 % a year,
\* a rate of -200 % a year, a negative extra payment
ExtremeArgs ==
    [principal : {FCents(500), FCents(10000)},
     apr : {FInt(99900), FInt(-200)},
     years : 1 .. MaxYears,
     freq : {"Yearly"},
     monthly_fee : {FCents(0)},
     extra_per_period : {FCents(0)}]
    \cup
    [principal : {FCents(500)},
     apr : {FInt(0)},
     years : 1 .. MaxYears,
     freq : {"Yearly"},
     monthly_fee : {FCents(0)},
     extra_per_period : {FCents(-500)}]

Args == TypicalArgs \cup ExtremeArgs

periods_per_year(mode) ==
    CASE mode = "Monthly" -> 12
      [] mode = "Quarterly" -> 4
      [] mode = "Yearly" -> 1

period_delta(freq) ==
    CASE freq = "Monthly" -> 30
      [] freq = "Quarterly" -> 91
      [] freq = "Yearly" -> 365

\* 1e-9, below which pmt takes the rate for zero
RateEps == [m |-> MantLo, e |-> -9 - (Prec - 1)]

\* 1e-6, the balance at which the schedule stops
BalanceEps == [m |-> MantLo, e |-> -6 - (Prec - 1)]

SafetyCap == 1000

\* (1 + rate_per_period) ** n_periods
Factor(rate_per_period, n_periods) == FPow(FAdd(One, rate_per_period), n_periods)

\* pmt divides by factor - 1 = 0: ZeroDivisionError
pmt_raises(rate_per_period, n_periods, principal) ==
    /\ n_periods # 0
    /\ ~FLt(FAbs(rate_per_period), RateEps)
    /\ FSub(Factor(rate_per_period, n_periods), One).m = 0

pmt(rate_per_period, n_periods, principal) ==
    IF n_periods = 0 THEN Zero
    ELSE IF FLt(FAbs(rate_per_period), RateEps) THEN FDiv(principal, FInt(n_periods))
    ELSE LET factor == Factor(rate_per_period, n_periods)
         IN  FDiv(FMul(FMul(principal, rate_per_period), factor), FSub(factor, One))

\* n = years * m
NPeriods(a) == a.years * periods_per_year(a.freq)

\* r = (apr / 100.0) / m
Rate(a) == FDiv(FDiv(a.apr, FInt(100)), FInt(periods_per_year(a.freq)))

\* an invocation of amortization_schedule before its first statement
EntryFrame ==
    [pc |-> "entry", base_payment |-> Zero, bal |-> Zero, current_date |-> 0,
     period |-> 0, records |-> << >>]

\* lines 57-74: the locals before the loop, or the exception pmt raises.
\* total_payment (line 62) is assigned and never read, and has no field.
Enter(a, f) ==
    IF pmt_raises(Rate(a), NPeriods(a), a.principal)
    THEN [f EXCEPT !.pc = "raised"]
    ELSE [f EXCEPT !.pc = "loop",
                   !.base_payment = pmt(Rate(a), NPeriods(a), a.principal),
                   !.bal = a.principal,
                   !.current_date = 0,
                   !.period = 0,
                   !.records = << >>]

\* the while condition without its safety cap
LoopCondNoCap(a, f) == FGt(f.bal, BalanceEps)

\* the while condition of line 75
LoopCond(a, f) ==
    /\ FGt(f.bal, BalanceEps)
    /\ f.period < SafetyCap * NPeriods(a)

\* principal_pay + extra_per_period, before the clamp of line 84
PrincipalComponent(a, f) ==
    LET interest == FMul(f.bal, Rate(a))
        principal_pay == FSub(f.base_payment, interest)
    IN  FAdd(principal_pay, a.extra_per_period)

\* line 84: the payment would overpay the loan
Clamped(a, f) == FGt(PrincipalComponent(a, f), f.bal)

\* the row columns of an iteration, from its local values
Row(a, f, period, row_date, interest, principal_component, total_paid, bal) ==
    [Period |-> period,
     Date |-> row_date,
     PaymentBase |-> Round2(f.base_payment),
     ExtraPayment |-> Round2(a.extra_per_period),
     PaymentTotal |-> Round2(total_paid),
     MonthlyFee |-> Round2(a.monthly_fee),
     GrandTotal |-> Round2(FAdd(total_paid, a.monthly_fee)),
     Interest |-> Round2(interest),
     Principal |-> Round2(principal_component),
     Balance |-> Round2(bal)]

\* an iteration that clamps the principal but keeps the full payment
IterateNoTrueUp(a, f) ==
    LET interest == FMul(f.bal, Rate(a))
        principal_component ==
            IF Clamped(a, f) THEN f.bal ELSE PrincipalComponent(a, f)
        total_paid_this_period == FAdd(f.base_payment, a.extra_per_period)
        bal == FSub(f.bal, principal_component)
    IN  [f EXCEPT
           !.period = f.period + 1,
           !.bal = bal,
           !.current_date = f.current_date + period_delta(a.freq),
           !.records = Append(f.records,
              Row(a, f, f.period + 1, f.current_date, interest,
                  principal_component, total_paid_this_period, bal))]

\* an iteration that takes the principal from total_payment (line 62), the
\* payment with the fee, instead of base_payment
IterateFeeInPrincipal(a, f) ==
    LET interest == FMul(f.bal, Rate(a))
        total_payment == FAdd(f.base_payment, a.monthly_fee)
        principal_pay == FSub(total_payment, interest)
        uncapped == FAdd(principal_pay, a.extra_per_period)
        principal_component == IF FGt(uncapped, f.bal) THEN f.bal ELSE uncapped
        total_paid_this_period ==
            IF FGt(uncapped, f.bal) THEN FAdd(interest, principal_component)
            ELSE FAdd(f.base_payment, a.extra_per_period)
        bal == FSub(f.bal, principal_component)
    IN  [f EXCEPT
           !.period = f.period + 1,
           !.bal = bal,
           !.current_date = f.current_date + period_delta(a.freq),
           !.records = Append(f.records,
              Row(a, f, f.period + 1, f.current_date, interest,
                  principal_component, total_paid_this_period, bal))]

\* lines 76-103: one iteration of the loop
Iterate(a, f) ==
    LET period == f.period + 1
        interest == FMul(f.bal, Rate(a))
        principal_component ==
            IF Clamped(a, f) THEN f.bal ELSE PrincipalComponent(a, f)
        total_paid_this_period ==
            IF Clamped(a, f) THEN FAdd(interest, principal_component)
            ELSE FAdd(f.base_payment, a.extra_per_period)
        bal == FSub(f.bal, principal_component)
        row_date == f.current_date
    IN  [f EXCEPT
           !.period = period,
           !.bal = bal,
           !.current_date = row_date + period_delta(a.freq),
           !.records = Append(f.records,
              Row(a, f, period, row_date, interest, principal_component,
                  total_paid_this_period, bal))]

\* lines 105-106: return df, round(base_payment, 2), period; the frame keeps
\* records, base_payment and period, from which the three values are read
Return(a, f) == [f EXCEPT !.pc = "returned"]

\* sum of a column of the schedule (lines 125-128)
RECURSIVE ColumnSum(_, _, _)
ColumnSum(rows, lo, hi) ==
    IF lo > hi THEN 0
    ELSE IF lo = hi THEN rows[lo]
    ELSE LET mid == (lo + hi) \div 2
         IN  ColumnSum(rows, lo, mid) + ColumnSum(rows, mid + 1, hi)

total_principal(records) ==
    ColumnSum([i \in 1 .. Len(records) |-> records[i].Principal], 1, Len(records))

(***************************************************************************)
(* Chat demo: session state, on_send, stream_openai_response, Clear Chat   *)
(***************************************************************************)
MaxLen == 2
MaxSends == 2
MaxReply == 2

\* texts are sequences of characters; " " is white space
Chars == {" ", "a"}

RECURSIVE Texts(_)
Texts(k) ==
    IF k = 0 THEN {<< >>}
    ELSE Texts(k - 1) \cup {Append(t, c) : t \in Texts(k - 1), c \in Chars}

RECURSIVE LStrip(_)
LStrip(t) == IF t # << >> /\ Head(t) = " " THEN LStrip(Tail(t)) ELSE t

RECURSIVE RStrip(_)
RStrip(t) ==
    IF t # << >> /\ t[Len(t)] = " " THEN RStrip(SubSeq(t, 1, Len(t) - 1)) ELSE t

\* str.strip()
Strip(t) == RStrip(LStrip(t))

\* the content of a chunk's delta: None, or a piece of text
Deltas == {<< >>, <<"b">>}

SystemMessage == [role |-> "system", content |-> <<"s">>]

\* lines 89-90: the user's message enters the history
AppendUser(history, user_input) ==
    Append(history, [role |-> "user", content |-> user_input])

\* lines 98-99: a non-empty reply enters the history
AppendAssistant(history, assistant_reply) ==
    IF assistant_reply # << >>
    THEN Append(history, [role |-> "assistant", content |-> assistant_reply])
    ELSE history

\* a reply recorded in generated whether empty or not
AppendGeneratedAlways(replies, assistant_reply) == Append(replies, assistant_reply)

\* lines 98-100: a non-empty reply is recorded in generated
AppendGenerated(replies, assistant_reply) ==
    IF assistant_reply # << >> THEN Append(replies, assistant_reply) ELSE replies

VARIABLES args, call, args2, call2,
          messages, generated, user_inputs, is_streaming, input_text,
          chat_pc, full_reply

loanVars == <<args, call>>
pairVars == <<args2, call2>>
chatVars == <<messages, generated, user_inputs, is_streaming, input_text,
              chat_pc, full_reply>>
vars == <<args, call, args2, call2, messages, generated, user_inputs,
          is_streaming, input_text, chat_pc, full_reply>>

\* lines 18-25: the session state of a new session
ChatInit ==
    /\ messages = <<SystemMessage>>
    /\ generated = << >>
    /\ user_inputs = << >>
    /\ is_streaming = FALSE
    /\ input_text = << >>
    /\ chat_pc = "idle"
    /\ full_reply = << >>

LoanInit ==
    /\ args \in Args
    /\ call = EntryFrame

\* no second invocation
PairIdle ==
    /\ args2 = args
    /\ call2 = EntryFrame

Init == LoanInit /\ PairIdle /\ ChatInit

Call ==
    /\ call.pc = "entry"
    /\ call' = Enter(args, call)
    /\ UNCHANGED <<args, pairVars, chatVars>>

LoopStep ==
    /\ call.pc = "loop"
    /\ LoopCond(args, call)
    /\ call' = Iterate(args, call)
    /\ UNCHANGED <<args, pairVars, chatVars>>

LoopExit ==
    /\ call.pc = "loop"
    /\ ~LoopCond(args, call)
    /\ call' = Return(args, call)
    /\ UNCHANGED <<args, pairVars, chatVars>>

LoanNext == Call \/ LoopStep \/ LoopExit

Spec == Init /\ [][LoanNext]_vars

(***************************************************************************)
(* Two invocations of amortization_schedule that differ in monthly_fee     *)
(***************************************************************************)
PairInit ==
    /\ args \in TypicalArgs
    /\ args2 \in {[args EXCEPT !.monthly_fee = fee] :
                    fee \in {FCents(0), FCents(150)} \ {args.monthly_fee}}
    /\ call = EntryFrame
    /\ call2 = EntryFrame
    /\ ChatInit

\* the next step of an invocation, if it has one
Advance(a, f) ==
    IF f.pc = "entry" THEN Enter(a, f)
    ELSE IF f.pc = "loop" /\ LoopCond(a, f) THEN Iterate(a, f)
    ELSE IF f.pc = "loop" THEN Return(a, f)
    ELSE f

\* both invocations take their next step
PairStep ==
    /\ ~(call.pc \in {"returned", "raised"} /\ call2.pc \in {"returned", "raised"})
    /\ call' = Advance(args, call)
    /\ call2' = Advance(args2, call2)
    /\ UNCHANGED <<args, args2, chatVars>>

FeeSpec == PairInit /\ [][PairStep]_vars

(***************************************************************************)
(* The chat session                                                        *)
(***************************************************************************)
IdleArgs ==
    [principal |-> Zero, apr |-> Zero, years |-> 1, freq |-> "Yearly",
     monthly_fee |-> Zero, extra_per_period |-> Zero]

ChatOnlyInit ==
    /\ args = IdleArgs
    /\ call = EntryFrame
    /\ PairIdle
    /\ ChatInit

\* lines 85-87: the text box changed to white space only; on_send returns
OnSendEmpty ==
    /\ chat_pc = "idle"
    /\ \E text \in Texts(MaxLen) :
          /\ Strip(text) = << >>
          /\ input_text' = text
    /\ UNCHANGED <<messages, generated, user_inputs, is_streaming, chat_pc,
                   full_reply, loanVars, pairVars>>

\* lines 85-95: the text box changed; on_send records the message and
\* calls stream_openai_response
OnSend ==
    /\ chat_pc = "idle"
    /\ Len(user_inputs) < MaxSends
    /\ \E text \in Texts(MaxLen) :
          /\ Strip(text) # << >>
          /\ messages' = AppendUser(messages, Strip(text))
          /\ user_inputs' = Append(user_inputs, Strip(text))
    /\ input_text' = << >>
    /\ is_streaming' = TRUE
    /\ chat_pc' = "client"
    /\ UNCHANGED <<generated, full_reply, loanVars, pairVars>>

\* lines 11-14, 48: the openai package cannot be imported; the RuntimeError
\* leaves stream_openai_response and on_send
ClientMissing ==
    /\ chat_pc = "client"
    /\ chat_pc' = "idle"
    /\ UNCHANGED <<messages, generated, user_inputs, is_streaming, input_text,
                   full_reply, loanVars, pairVars>>

\* lines 96-100: on_send after stream_openai_response returned assistant_reply
Finish(assistant_reply) ==
    /\ is_streaming' = FALSE
    /\ messages' = AppendAssistant(messages, assistant_reply)
    /\ generated' = AppendGenerated(generated, assistant_reply)
    /\ chat_pc' = "idle"
    /\ full_reply' = << >>
    /\ UNCHANGED <<user_inputs, input_text, loanVars, pairVars>>

\* lines 49-52: no API key; stream_openai_response returns ""
KeyMissing ==
    /\ chat_pc = "client"
    /\ Finish(<< >>)

\* lines 55-67: the request is made and the stream opens
StreamOpen ==
    /\ chat_pc = "client"
    /\ chat_pc' = "stream"
    /\ full_reply' = << >>
    /\ UNCHANGED <<messages, generated, user_inputs, is_streaming, input_text,
                   loanVars, pairVars>>

\* lines 69-77: the next chunk of the stream
Chunk ==
    /\ chat_pc = "stream"
    /\ Len(full_reply) < MaxReply
    /\ \E content \in Deltas : full_reply' = full_reply \o content
    /\ UNCHANGED <<messages, generated, user_inputs, is_streaming, input_text,
                   chat_pc, loanVars, pairVars>>

\* lines 78-80: the request or the stream raises; stream_openai_response
\* returns ""
StreamError ==
    /\ chat_pc \in {"client", "stream"}
    /\ Finish(<< >>)

\* line 82: the stream ends; stream_openai_response returns full_reply
StreamEnd ==
    /\ chat_pc = "stream"
    /\ Finish(full_reply)

\* lines 121-124: the Clear Chat button
ClearChat ==
    /\ chat_pc = "idle"
    /\ messages' = <<SystemMessage>>
    /\ generated' = << >>
    /\ user_inputs' = << >>
    /\ UNCHANGED <<is_streaming, input_text, chat_pc, full_reply, loanVars,
                   pairVars>>

ChatNext ==
    \/ OnSendEmpty
    \/ OnSend
    \/ ClientMissing
    \/ KeyMissing
    \/ StreamOpen
    \/ Chunk
    \/ StreamError
    \/ StreamEnd
    \/ ClearChat

ChatSpec == ChatOnlyInit /\ [][ChatNext]_vars

(***************************************************************************)
(* Properties of the schedule                                              *)
(***************************************************************************)
\* the arguments the sidebar's min_value = 0 bounds allow
NonNegative(a) ==
    /\ a.principal.m >= 0
    /\ a.apr.m >= 0
    /\ a.years >= 1
    /\ a.extra_per_period.m >= 0
    /\ a.monthly_fee.m >= 0

Last(rows) == rows[Len(rows)]

C2_RowAddsUp ==
    (call.pc = "returned" /\ NonNegative(args)) =>
        \A i \in 1 .. Len(call.records) - 1 :
            call.records[i].Interest + call.records[i].Principal
                = call.records[i].PaymentTotal

C4_FinalPeriodTrueUp ==
    [][(LoopStep /\ Clamped(args, call)) =>
          /\ Last(call'.records).Principal = Round2(call.bal)
          /\ Last(call'.records).PaymentTotal
                = Round2(FAdd(FMul(call.bal, Rate(args)), call.bal))
          /\ call'.bal = Zero
          /\ Last(call'.records).Balance = 0
          /\ ~LoopCond(args, call')]_vars

\* C4 witness: an extra payment ended a schedule early with a clamped row
C4_Witness ==
    /\ call.pc = "returned"
    /\ args.extra_per_period.m > 0
    /\ Len(call.records) >= 2
    /\ Len(call.records) < NPeriods(args)
    /\ Last(call.records).Balance = 0
    /\ Last(call.records).Principal = call.records[Len(call.records) - 1].Balance
    /\ Last(call.records).PaymentTotal < Last(call.records).PaymentBase

\* C5: the loop ends for every argument, and never emits more than 1000 * n rows:
\* every iteration adds one row and raises period by one, and period never
\* passes 1000 * n, so no run makes more than 1000 * n iterations.
C5_Terminates ==
    [][LoopStep =>
          /\ call'.period = call.period + 1
          /\ call'.period <= SafetyCap * NPeriods(args)
          /\ Len(call'.records) = Len(call.records) + 1
          /\ Len(call'.records) <= SafetyCap * NPeriods(args)]_vars

\* C5 witness: a schedule whose balance never fell was cut off by the cap
C5_Witness ==
    /\ call.pc = "returned"
    /\ ~NonNegative(args)
    /\ Len(call.records) = SafetyCap * NPeriods(args)
    /\ FGt(call.bal, BalanceEps)

C8_PeriodCount ==
    (call.pc = "returned" /\ NonNegative(args)) =>
        /\ call.period = Len(call.records)
        /\ \A i \in 1 .. Len(call.records) : call.records[i].Period = i
        /\ call.period <= NPeriods(args)

\* the columns of a row that the fee has no part in
FeeFree(row) ==
    [Period |-> row.Period, Date |-> row.Date, PaymentBase |-> row.PaymentBase,
     ExtraPayment |-> row.ExtraPayment, PaymentTotal |-> row.PaymentTotal,
     Interest |-> row.Interest, Principal |-> row.Principal,
     Balance |-> row.Balance]

\* C7: two invocations that differ only in monthly_fee emit the same number of
\* rows with the same interest, principal, payment excl. fees and balance; the
\* fee shows in the Monthly Fee column only (and in the grand total).
C7_FeeLeavesPrincipalAlone ==
    /\ call.pc = call2.pc
    /\ call.period = call2.period
    /\ call.bal = call2.bal
    /\ Len(call.records) = Len(call2.records)
    /\ \A i \in 1 .. Len(call.records) :
          /\ i <= Len(call2.records)
                => FeeFree(call.records[i]) = FeeFree(call2.records[i])
          /\ call.records[i].MonthlyFee = Round2(args.monthly_fee)

\* C7 witness: both invocations returned schedules whose grand totals differ
C7_Witness ==
    /\ call.pc = "returned"
    /\ call2.pc = "returned"
    /\ args.monthly_fee # args2.monthly_fee
    /\ Len(call.records) >= 2
    /\ Len(call2.records) >= 2
    /\ call.records[2].GrandTotal # call2.records[2].GrandTotal

(***************************************************************************)
(* Properties of the chat session                                          *)
(***************************************************************************)
RoleCount(history, role) ==
    Cardinality({i \in 1 .. Len(history) : history[i].role = role})

\* C9: the history starts with the system message, holds as many user messages
\* as user_inputs and as many assistant messages as generated, and every
\* assistant message comes right after a user message.
C9_HistoryConsistent ==
    /\ Len(messages) >= 1
    /\ messages[1] = SystemMessage
    /\ RoleCount(messages, "system") = 1
    /\ RoleCount(messages, "user") = Len(user_inputs)
    /\ RoleCount(messages, "assistant") = Len(generated)
    /\ \A i \in 1 .. Len(messages) :
          messages[i].role = "assistant"
              => (i > 1 /\ messages[i - 1].role = "user")

\* C9 witness: a failed exchange followed by an answered one
C9_Witness ==
    /\ chat_pc = "idle"
    /\ Len(user_inputs) = 2
    /\ Len(generated) = 1
    /\ Len(messages) = 4
    /\ messages[4].role = "assistant"

\* C10: whenever on_send is not executing, is_streaming is False, and a failed
\* stream appends no assistant message and keeps the user message.
C10_StreamingFlagReset ==
    [][(chat_pc' = "idle") =>
          /\ is_streaming' = FALSE
          /\ (ClientMissing \/ KeyMissing \/ StreamError) =>
                (messages' = messages /\ Last(messages').role = "user")]_vars

====
